---- MODULE Spec2Model ----
(***************************************************************************)
(* Model of Backend/server.py: the session store (pickled metadata files   *)
(* in sessions/), the per-session FAISS index (directories in              *)
(* vectorstore/), the in-memory conversation_chains map, and the Flask     *)
(* handlers create_session, update_session, delete_session,                *)
(* upload_documents and chat, run by a threaded server: each handler is a  *)
(* sequence of steps, one per access to shared state, and steps of         *)
(* different requests interleave.                                          *)
(*                                                                         *)
(* Strings that the code concatenates into storage keys (user_id,          *)
(* session_id, file names) are sequences of tokens, so that two different  *)
(* (user_id, session_id) pairs can produce the same key exactly when the   *)
(* f-strings of the code do.                                               *)
(***************************************************************************)
EXTENDS Integers, Sequences, FiniteSets, TLC

\* ------------------------------------------------------------------ bounds
MaxReq == 2      \* request slots: requests the threaded server runs at once
MaxClock == 1    \* last value of the wall clock
MaxFiles == 1    \* files in one upload request
MaxDocs == 2     \* document records in a manifest
MaxChunks == 2   \* chunks in an index
MaxTurns == 1    \* turns in a transcript

Reqs == 1..MaxReq

\* ------------------------------------------------------------ input values
\* Python's None; also used for "no value yet" in a request's locals.
None == [none |-> TRUE]

\* user_id values clients send.
Users == {<<"a">>}

\* str(uuid.uuid4()) values create_session can issue.
Uuids == {<<"x">>}

\* session_id values clients send.
SessionIds == Uuids

\* A server that issues two uuids, and two users, the id of one a prefix
\* of the id of the other up to the "_" of the storage keys.
TwoUuids == {<<"x">>, <<"y">>}
TwoUsers == {<<"a">>, <<"a", "_", "b">>}

\* What a client may also send as session_id: any string.
ForgedSessionIds == {<<"b", "_", "x">>}

\* Names a client gives a session when renaming it.
SessionNames == {"Biology"}

Questions == {"q"}
QuestionInputs == Questions \cup {""}

\* Answers the completion provider returns.
Answers == {"ans"}

\* What a client may send as user_id / session_id; <<>> is a missing one.
UserIdInputs == Users \cup {<<>>}
SessionIdInputs == SessionIds \cup {<<>>}

\* JSON bodies of POST /sessions/create.
CreateBodies == {[user_id |-> u] : u \in Users}
BadCreateBodies == {[session_name |-> n] : n \in SessionNames}

\* JSON bodies of PUT /sessions/<user_id>/<session_id>.
RenameBodies == {[session_name |-> n] : n \in SessionNames} \cup {[other |-> TRUE]}

\* An uploaded file: the client's file name and the text the extractor
\* returns for it. Text is a sequence of paragraphs; "ws" is a paragraph of
\* whitespace only.
FileA == [filename |-> <<"a", ".", "pdf">>, text |-> <<"A">>]
FileB == [filename |-> <<"b", ".", "docx">>, text |-> <<"B">>]
FileScan == [filename |-> <<"s", ".", "PDF">>, text |-> <<"ws">>]
FileTxt == [filename |-> <<"t", ".", "txt">>, text |-> <<"T">>]
Files == {FileA, FileScan, FileTxt}

RECURSIVE SeqsUpTo(_, _)
SeqsUpTo(S, n) ==
    IF n = 0 THEN {<<>>}
    ELSE LET shorter == SeqsUpTo(S, n - 1)
         IN shorter \cup {Append(q, x) : q \in shorter, x \in S}

\* request.files.getlist("files"); <<>> when the form has no "files" field.
FileLists == SeqsUpTo(Files, MaxFiles) \ {<<>>}
WideFileLists == SeqsUpTo(Files \cup {FileB}, MaxFiles)
TextFileLists == SeqsUpTo({FileA, FileB}, MaxFiles) \ {<<>>}

\* ------------------------------------------------------------------- state
VARIABLES
    sessions_dir,          \* sessions/: file name -> unpickled metadata
    vectorstore_dir,       \* vectorstore/: path name -> saved FAISS index
    conversation_chains,   \* session key -> retrieval chain (in memory)
    now,                   \* the wall clock datetime.now() reads
    issued,                \* uuids create_session has generated
    req                    \* request slot -> the request's locals and response

vars == <<sessions_dir, vectorstore_dir, conversation_chains, now, issued, req>>

\* --------------------------------------------------------- keys and paths
\* A key made of the user alone.
get_session_key_of_user(user_id, session_id) == user_id

get_session_key(user_id, session_id) == user_id \o <<"_">> \o session_id

get_session_path(user_id, session_id) ==
    user_id \o <<"_">> \o session_id \o <<"_", "session", ".pkl">>

get_vectorstore_path(user_id, session_id) ==
    user_id \o <<"_">> \o session_id \o <<"_", "vectorstore", ".pkl">>

\* str.replace(".pkl", ""): drops every ".pkl" of the path.
replace_pkl(path) == SelectSeq(path, LAMBDA tok : tok # ".pkl")

\* A directory as a function from names to contents.
exists(dir, path) == path \in DOMAIN dir
write(dir, path, content) ==
    [p \in DOMAIN dir \cup {path} |-> IF p = path THEN content ELSE dir[p]]
remove(dir, path) == [p \in DOMAIN dir \ {path} |-> dir[p]]

\* ---------------------------------------------------------- session store
\* A file of sessions/ that open(..., "wb") has truncated and pickle.dump has
\* not yet filled; pickle.load raises EOFError on it.
Truncated == [truncated |-> TRUE]

load_session_metadata(dir, user_id, session_id) ==
    LET session_path == get_session_path(user_id, session_id)
    IN IF exists(dir, session_path) THEN dir[session_path] ELSE None

save_session_metadata(dir, user_id, session_id, metadata) ==
    write(dir, get_session_path(user_id, session_id), metadata)

\* ------------------------------------------------------------ vectorstore
load_vectorstore(dir, user_id, session_id) ==
    LET vectorstore_path == replace_pkl(get_vectorstore_path(user_id, session_id))
    IN IF exists(dir, vectorstore_path) THEN dir[vectorstore_path] ELSE None

save_vectorstore(dir, user_id, session_id, vectorstore) ==
    write(dir, replace_pkl(get_vectorstore_path(user_id, session_id)), vectorstore)

\* A call that raised.
Raised == [raised |-> TRUE]

\* The directory of an index between the two writes of FAISS.save_local:
\* index.faiss is the new one, index.pkl (the texts) is the one that was
\* there, if any.
half_written(content) ==
    IF "texts" \in DOMAIN content
    THEN [half |-> TRUE, texts |-> content.texts]
    ELSE [half |-> TRUE]

\* What FAISS.load_local can return for the content of a directory. Between
\* the two writes it raises (index.pkl is missing, or index.faiss is not yet
\* whole) or it returns new vectors over the old texts.
load_local(content) ==
    IF "half" \in DOMAIN content
    THEN {Raised} \cup (IF "texts" \in DOMAIN content
                        THEN {[texts |-> content.texts]} ELSE {})
    ELSE {content}

\* FAISS.from_texts: a new index holding the chunks.
from_texts(text_chunks) == [texts |-> text_chunks]

\* An add_texts that keeps only the new chunks.
add_texts_replacing(existing_vectorstore, text_chunks) == [texts |-> text_chunks]

\* FAISS.add_texts: appends the chunks to the index.
add_texts(existing_vectorstore, text_chunks) ==
    [texts |-> existing_vectorstore.texts \o text_chunks]

\* ------------------------------------------------------------ request slots
Idle ==
    [op |-> "none", pc |-> "idle", user_id |-> <<>>, session_id |-> <<>>,
     metadata |-> None, files |-> <<>>,
     text_chunks |-> <<>>, vectorstore |-> None, chain |-> None,
     question |-> "", context |-> <<>>, answer |-> "", calls |-> 0,
     sessions |-> <<>>,
     status |-> 0, error |-> ""]

Busy(r) == req[r].pc \notin {"idle", "done"}

\* A new request takes the first slot that runs no request; the response of
\* the request that ran there before is dropped.
Free(r) == ~Busy(r) /\ \A r2 \in 1..(r - 1) : Busy(r2)

\* A response has been written and not yet taken off its slot.
NoPending == \A r \in Reqs : req[r].pc # "done"

\* The response leaves the slot.
Release(r) ==
    /\ req[r].pc = "done"
    /\ req' = [req EXCEPT ![r] = Idle]
    /\ UNCHANGED <<sessions_dir, vectorstore_dir, conversation_chains, now, issued>>

\* A request that has returned: the response, and of the locals only what
\* the response is about (whose session, which chunks, which answer).
Respond(q, status, error) ==
    [Idle EXCEPT !.op = q.op, !.pc = "done", !.user_id = q.user_id,
                 !.session_id = q.session_id, !.files = q.files,
                 !.text_chunks = q.text_chunks,
                 !.context = q.context, !.answer = q.answer, !.calls = q.calls,
                 !.sessions = q.sessions,
                 !.status = status, !.error = error]

Begin(op, user_id, session_id) ==
    [Idle EXCEPT !.op = op, !.pc = "start", !.user_id = user_id,
                 !.session_id = session_id]

Init ==
    /\ sessions_dir = [p \in {} |-> None]
    /\ vectorstore_dir = [p \in {} |-> None]
    /\ conversation_chains = [p \in {} |-> None]
    /\ now = 0
    /\ issued = {}
    /\ req = [r \in Reqs |-> Idle]

\* The clock advances.
Tick ==
    /\ now < MaxClock
    /\ now' = now + 1
    /\ UNCHANGED <<sessions_dir, vectorstore_dir, conversation_chains, issued, req>>

\* ---------------------------------------------------------- create_session
\* created_at is written here and never read or changed by any handler; the
\* record of the model leaves it out.
session_metadata(session_id, user_id, session_name, t) ==
    [session_id |-> session_id, user_id |-> user_id, session_name |-> session_name,
     updated_at |-> t, message_count |-> 0, documents |-> <<>>]

\* POST /sessions/create
\* data: the JSON body, a record with the fields the client sent.
\* uuids: the values uuid.uuid4() can return.
CreateSessionFrom(r, data, uuids) ==
    /\ Free(r)
    /\ LET user_id == IF "user_id" \in DOMAIN data THEN data.user_id ELSE <<>>
           session_name == IF "session_name" \in DOMAIN data
                           THEN data.session_name ELSE "New Chat"
           q == Begin("create", user_id, <<>>)
       IN IF user_id = <<>>
          THEN /\ req' = [req EXCEPT ![r] = Respond(q, 400, "user_id is required")]
               /\ UNCHANGED <<sessions_dir, issued>>
          ELSE \E session_id \in uuids \ issued :
                 /\ issued' = issued \cup {session_id}
                 /\ sessions_dir' =
                      save_session_metadata(sessions_dir, user_id, session_id,
                          session_metadata(session_id, user_id, session_name, now))
                 /\ req' = [req EXCEPT ![r] =
                              Respond([q EXCEPT !.session_id = session_id], 201, "")]
    /\ UNCHANGED <<vectorstore_dir, conversation_chains, now>>

CreateSession(r, data) == CreateSessionFrom(r, data, Uuids)

\* ------------------------------------------------------- upload_documents
ALLOWED_EXTENSIONS == {<<"pdf">>, <<"docx">>}

\* str.lower() on a token.
lower(tok) == IF tok = "PDF" THEN "pdf" ELSE IF tok = "DOCX" THEN "docx" ELSE tok

\* filename.rsplit(".", 1)[1].lower(): what follows the last ".".
rsplit_ext(filename) ==
    LET dots == {i \in 1..Len(filename) : filename[i] = "."}
        last == CHOOSE i \in dots : \A j \in dots : j <= i
        tail == SubSeq(filename, last + 1, Len(filename))
    IN [i \in 1..Len(tail) |-> lower(tail[i])]

allowed_file(filename) ==
    /\ \E i \in 1..Len(filename) : filename[i] = "."
    /\ rsplit_ext(filename) \in ALLOWED_EXTENSIONS

extract_text_from_file(file, file_type) ==
    IF file_type \in {<<"pdf">>, <<"docx">>} THEN file.text ELSE <<>>

\* str.strip(): drops leading and trailing whitespace.
RECURSIVE lstrip(_)
lstrip(text) ==
    IF text # <<>> /\ Head(text) = "ws" THEN lstrip(Tail(text)) ELSE text

RECURSIVE rstrip(_)
rstrip(text) ==
    IF text # <<>> /\ text[Len(text)] = "ws"
    THEN rstrip(SubSeq(text, 1, Len(text) - 1))
    ELSE text

strip(text) == rstrip(lstrip(text))

\* CharacterTextSplitter.split_text: every paragraph is about chunk_size
\* long, so each one with content is a chunk; whitespace-only pieces are
\* dropped.
get_text_chunks(text) == SelectSeq(text, LAMBDA par : par # "ws")

\* The per-file loop: state is [all_text, uploaded_files, metadata].
\* saved_as (a fresh uuid name under uploads/) and uploaded_at are written
\* here and never read by any handler; the record of the model leaves them
\* out.
RECURSIVE file_loop(_, _)
file_loop(files, acc) ==
    IF files = <<>> THEN acc
    ELSE LET file == Head(files)
         IN IF allowed_file(file.filename)
            THEN LET file_type == rsplit_ext(file.filename)
                     text == extract_text_from_file(file, file_type)
                     doc_info == [filename |-> file.filename, type |-> file_type]
                 IN file_loop(Tail(files),
                        [all_text |-> acc.all_text \o text \o <<"ws">>,
                         uploaded_files |-> Append(acc.uploaded_files, doc_info),
                         metadata |-> [acc.metadata EXCEPT
                                         !.documents = Append(@, doc_info)]])
            ELSE file_loop(Tail(files), acc)

\* A test of all_text that every text passes.
has_text_always(all_text) == TRUE

\* `if all_text.strip():`
has_text(all_text) == strip(all_text) # <<>>

\* The index update_vectorstore saves: the existing one with the chunks
\* added, or a new one.
updated_index(existing_vectorstore, text_chunks) ==
    IF existing_vectorstore # None
    THEN add_texts(existing_vectorstore, text_chunks)
    ELSE from_texts(text_chunks)

\* POST /upload: the checks of the request, load_session_metadata, the file
\* loop and the test of all_text (the loop works on the request's own data).
StartUpload(r, files, user_id, session_id) ==
    /\ Free(r)
    /\ LET q == [Begin("upload", user_id, session_id) EXCEPT !.files = files]
           metadata == load_session_metadata(sessions_dir, user_id, session_id)
           out == file_loop(files, [all_text |-> <<>>, uploaded_files |-> <<>>,
                                    metadata |-> metadata])
       IN IF files = <<>>
          THEN req' = [req EXCEPT ![r] = Respond(q, 400, "No files provided")]
          ELSE IF user_id = <<>> \/ session_id = <<>>
          THEN req' = [req EXCEPT ![r] =
                         Respond(q, 400, "user_id and session_id are required")]
          ELSE IF metadata = Truncated
          THEN req' = [req EXCEPT ![r] = Respond(q, 500, "EOFError")]
          ELSE IF metadata = None
          THEN req' = [req EXCEPT ![r] = Respond(q, 404, "Session not found")]
          ELSE IF has_text(out.all_text)
          THEN /\ Len(out.metadata.documents) <= MaxDocs
               /\ req' = [req EXCEPT ![r] =
                            [q EXCEPT !.pc = "u_load_vs",
                                      !.metadata = out.metadata,
                                      !.text_chunks = get_text_chunks(out.all_text)]]
          ELSE req' = [req EXCEPT ![r] =
                         Respond(q, 400, "No text could be extracted from files")]
    /\ UNCHANGED <<sessions_dir, vectorstore_dir, conversation_chains, now, issued>>

\* An embedding call that keeps the chunks it embedded before the provider
\* failed and does not raise.
embed_documents_partial(texts, n) ==
    [raised |-> FALSE, texts |-> SubSeq(texts, 1, n)]

\* The embedding call inside add_texts / from_texts, where the provider
\* answers for the first n chunks: it raises unless that is all of them.
embed_documents(texts, n) ==
    [raised |-> n < Len(texts), texts |-> SubSeq(texts, 1, n)]

\* update_vectorstore: load_vectorstore, then add_texts / from_texts, whose
\* embedding call may raise.
UploadLoadVectorstore(r) ==
    /\ req[r].pc = "u_load_vs"
    /\ \E n \in 0..Len(req[r].text_chunks),
          existing_vectorstore \in
             load_local(load_vectorstore(vectorstore_dir, req[r].user_id,
                                         req[r].session_id)) :
         LET q == req[r]
             embedded == embed_documents(q.text_chunks, n)
             vectorstore == updated_index(existing_vectorstore, embedded.texts)
         IN IF existing_vectorstore = Raised
            THEN req' = [req EXCEPT ![r] = Respond(q, 500, "load_local failed")]
            ELSE IF ~embedded.raised
            THEN /\ Len(vectorstore.texts) <= MaxChunks
                 /\ req' = [req EXCEPT ![r] =
                              [q EXCEPT !.pc = "u_save_vs",
                                        !.vectorstore = vectorstore]]
            ELSE req' = [req EXCEPT ![r] = Respond(q, 500, "embedding failed")]
    /\ UNCHANGED <<sessions_dir, vectorstore_dir, conversation_chains, now, issued>>

\* update_vectorstore: save_vectorstore.
UploadSaveVectorstore(r) ==
    /\ req[r].pc = "u_save_vs"
    /\ vectorstore_dir' =
          save_vectorstore(vectorstore_dir, req[r].user_id, req[r].session_id,
                           req[r].vectorstore)
    /\ req' = [req EXCEPT ![r] = [@ EXCEPT !.pc = "u_stamp", !.vectorstore = None]]
    /\ UNCHANGED <<sessions_dir, conversation_chains, now, issued>>

\* save_vectorstore, the first write of FAISS.save_local: index.faiss.
UploadSaveFaiss(r) ==
    /\ req[r].pc = "u_save_vs"
    /\ LET vectorstore_path ==
              replace_pkl(get_vectorstore_path(req[r].user_id, req[r].session_id))
           content == IF exists(vectorstore_dir, vectorstore_path)
                      THEN vectorstore_dir[vectorstore_path] ELSE None
       IN vectorstore_dir' =
             write(vectorstore_dir, vectorstore_path, half_written(content))
    /\ req' = [req EXCEPT ![r] = [@ EXCEPT !.pc = "u_save_pkl"]]
    /\ UNCHANGED <<sessions_dir, conversation_chains, now, issued>>

\* save_vectorstore, the second write of FAISS.save_local: index.pkl.
UploadSavePkl(r) ==
    /\ req[r].pc = "u_save_pkl"
    /\ vectorstore_dir' =
          save_vectorstore(vectorstore_dir, req[r].user_id, req[r].session_id,
                           req[r].vectorstore)
    /\ req' = [req EXCEPT ![r] = [@ EXCEPT !.pc = "u_stamp", !.vectorstore = None]]
    /\ UNCHANGED <<sessions_dir, conversation_chains, now, issued>>

\* metadata["updated_at"] = datetime.now().isoformat()
UploadStamp(r) ==
    /\ req[r].pc = "u_stamp"
    /\ req' = [req EXCEPT ![r] =
                 [@ EXCEPT !.pc = "u_save_md", !.metadata.updated_at = now]]
    /\ UNCHANGED <<sessions_dir, vectorstore_dir, conversation_chains, now, issued>>

\* save_session_metadata and the 200 response.
UploadSaveMetadata(r) ==
    /\ req[r].pc = "u_save_md"
    /\ sessions_dir' =
          save_session_metadata(sessions_dir, req[r].user_id, req[r].session_id,
                                req[r].metadata)
    /\ req' = [req EXCEPT ![r] = Respond(req[r], 200, "")]
    /\ UNCHANGED <<vectorstore_dir, conversation_chains, now, issued>>

\* ---------------------------------------------------------- update_session
\* PUT /sessions/<user_id>/<session_id>, up to the update of the fields.
StartRename(r, user_id, session_id, data) ==
    /\ Free(r)
    /\ LET q == Begin("rename", user_id, session_id)
           metadata == load_session_metadata(sessions_dir, user_id, session_id)
       IN IF metadata = Truncated
          THEN req' = [req EXCEPT ![r] = Respond(q, 500, "EOFError")]
          ELSE IF metadata = None
          THEN req' = [req EXCEPT ![r] = Respond(q, 404, "Session not found")]
          ELSE req' = [req EXCEPT ![r] =
                         [q EXCEPT !.pc = "r_stamp",
                                   !.metadata =
                                      IF "session_name" \in DOMAIN data
                                      THEN [metadata EXCEPT
                                              !.session_name = data.session_name]
                                      ELSE metadata]]
    /\ UNCHANGED <<sessions_dir, vectorstore_dir, conversation_chains, now, issued>>

\* metadata["updated_at"] = datetime.now().isoformat()
RenameStamp(r) ==
    /\ req[r].pc = "r_stamp"
    /\ req' = [req EXCEPT ![r] =
                 [@ EXCEPT !.pc = "r_save", !.metadata.updated_at = now]]
    /\ UNCHANGED <<sessions_dir, vectorstore_dir, conversation_chains, now, issued>>

\* save_session_metadata and the 200 response.
RenameSave(r) ==
    /\ req[r].pc = "r_save"
    /\ sessions_dir' =
          save_session_metadata(sessions_dir, req[r].user_id, req[r].session_id,
                                req[r].metadata)
    /\ req' = [req EXCEPT ![r] = Respond(req[r], 200, "")]
    /\ UNCHANGED <<vectorstore_dir, conversation_chains, now, issued>>

\* save_session_metadata, first step: open(session_path, "wb") creates or
\* truncates the file.
RenameSaveOpen(r) ==
    /\ req[r].pc = "r_save"
    /\ sessions_dir' =
          write(sessions_dir, get_session_path(req[r].user_id, req[r].session_id),
                Truncated)
    /\ req' = [req EXCEPT ![r] = [@ EXCEPT !.pc = "r_dump"]]
    /\ UNCHANGED <<vectorstore_dir, conversation_chains, now, issued>>

\* save_session_metadata, second step: pickle.dump and the close of the
\* file; then the 200 response.
RenameSaveDump(r) ==
    /\ req[r].pc = "r_dump"
    /\ sessions_dir' =
          save_session_metadata(sessions_dir, req[r].user_id, req[r].session_id,
                                req[r].metadata)
    /\ req' = [req EXCEPT ![r] = Respond(req[r], 200, "")]
    /\ UNCHANGED <<vectorstore_dir, conversation_chains, now, issued>>

\* ---------------------------------------------------------- delete_session
\* DELETE /sessions/<user_id>/<session_id>: os.path.exists(session_path).
StartDelete(r, user_id, session_id) ==
    /\ Free(r)
    /\ LET q == Begin("delete", user_id, session_id)
       IN req' = [req EXCEPT ![r] =
                    [q EXCEPT !.pc =
                        IF exists(sessions_dir, get_session_path(user_id, session_id))
                        THEN "d_remove_md" ELSE "d_vs"]]
    /\ UNCHANGED <<sessions_dir, vectorstore_dir, conversation_chains, now, issued>>

\* os.remove(session_path): raises when the file is gone by now.
DeleteRemoveMetadata(r) ==
    /\ req[r].pc = "d_remove_md"
    /\ LET session_path == get_session_path(req[r].user_id, req[r].session_id)
       IN IF exists(sessions_dir, session_path)
          THEN /\ sessions_dir' = remove(sessions_dir, session_path)
               /\ req' = [req EXCEPT ![r] = [@ EXCEPT !.pc = "d_vs"]]
          ELSE /\ req' = [req EXCEPT ![r] = Respond(req[r], 500, "FileNotFoundError")]
               /\ UNCHANGED sessions_dir
    /\ UNCHANGED <<vectorstore_dir, conversation_chains, now, issued>>

\* `if os.path.exists(vectorstore_path): os.remove(vectorstore_path)`, on the
\* path get_vectorstore_path returns.
DeleteVectorstore(r) ==
    /\ req[r].pc = "d_vs"
    /\ LET vectorstore_path ==
              get_vectorstore_path(req[r].user_id, req[r].session_id)
       IN vectorstore_dir' =
             IF exists(vectorstore_dir, vectorstore_path)
             THEN remove(vectorstore_dir, vectorstore_path)
             ELSE vectorstore_dir
    /\ req' = [req EXCEPT ![r] = [@ EXCEPT !.pc = "d_chain"]]
    /\ UNCHANGED <<sessions_dir, conversation_chains, now, issued>>

\* `if session_key in conversation_chains:`
DeleteChainCheck(r) ==
    /\ req[r].pc = "d_chain"
    /\ LET session_key == get_session_key(req[r].user_id, req[r].session_id)
       IN IF session_key \in DOMAIN conversation_chains
          THEN req' = [req EXCEPT ![r] = [@ EXCEPT !.pc = "d_del_chain"]]
          ELSE req' = [req EXCEPT ![r] = Respond(req[r], 200, "")]
    /\ UNCHANGED <<sessions_dir, vectorstore_dir, conversation_chains, now, issued>>

\* `del conversation_chains[session_key]`: raises when the key is gone by now.
DeleteChainDel(r) ==
    /\ req[r].pc = "d_del_chain"
    /\ LET session_key == get_session_key(req[r].user_id, req[r].session_id)
       IN IF session_key \in DOMAIN conversation_chains
          THEN /\ conversation_chains' = remove(conversation_chains, session_key)
               /\ req' = [req EXCEPT ![r] = Respond(req[r], 200, "")]
          ELSE /\ req' = [req EXCEPT ![r] = Respond(req[r], 500, "KeyError")]
               /\ UNCHANGED conversation_chains
    /\ UNCHANGED <<sessions_dir, vectorstore_dir, now, issued>>

\* ------------------------------------------- get_session, get_user_sessions
\* GET /sessions/<user_id>/<session_id>
GetSession(r, user_id, session_id) ==
    /\ Free(r)
    /\ LET q == Begin("get", user_id, session_id)
           metadata == load_session_metadata(sessions_dir, user_id, session_id)
       IN req' = [req EXCEPT ![r] =
                    IF metadata = Truncated THEN Respond(q, 500, "EOFError")
                    ELSE IF metadata = None THEN Respond(q, 404, "Session not found")
                    ELSE Respond([q EXCEPT !.sessions = <<metadata>>], 200, "")]
    /\ UNCHANGED <<sessions_dir, vectorstore_dir, conversation_chains, now, issued>>

\* str.startswith / str.endswith
startswith(s, prefix) ==
    Len(prefix) <= Len(s) /\ SubSeq(s, 1, Len(prefix)) = prefix
endswith(s, suffix) ==
    Len(suffix) <= Len(s) /\ SubSeq(s, Len(s) - Len(suffix) + 1, Len(s)) = suffix

\* str.replace(old, ""): drops every occurrence of old, left to right.
RECURSIVE replace(_, _)
replace(s, old) ==
    IF s = <<>> THEN <<>>
    ELSE IF startswith(s, old) THEN replace(SubSeq(s, Len(old) + 1, Len(s)), old)
    ELSE <<Head(s)>> \o replace(Tail(s), old)

\* os.listdir: the names of a directory in an order of the file system's.
listdir(dir) ==
    {names \in [1..Cardinality(DOMAIN dir) -> DOMAIN dir] :
        \A i, j \in DOMAIN names : i # j => names[i] # names[j]}

\* An insertion that puts the smaller keys first.
insert_asc(sorted, x) ==
    LET larger == {i \in 1..Len(sorted) : sorted[i].updated_at > x.updated_at}
        at == IF larger = {} THEN Len(sorted) + 1
              ELSE CHOOSE i \in larger : \A j \in larger : i <= j
    IN SubSeq(sorted, 1, at - 1) \o <<x>> \o SubSeq(sorted, at, Len(sorted))

\* list.sort(key=..., reverse=True) by insertion: x goes before the first
\* element with a smaller key, after those with an equal one (the sort is
\* stable).
insert_desc(sorted, x) ==
    LET smaller == {i \in 1..Len(sorted) : sorted[i].updated_at < x.updated_at}
        at == IF smaller = {} THEN Len(sorted) + 1
              ELSE CHOOSE i \in smaller : \A j \in smaller : i <= j
    IN SubSeq(sorted, 1, at - 1) \o <<x>> \o SubSeq(sorted, at, Len(sorted))

RECURSIVE sort_desc(_)
sort_desc(sessions) ==
    IF sessions = <<>> THEN <<>>
    ELSE insert_desc(sort_desc(SubSeq(sessions, 1, Len(sessions) - 1)),
                     sessions[Len(sessions)])

\* The loop of get_user_sessions over the names: the records loaded so far,
\* and whether a load has raised.
RECURSIVE user_sessions_loop(_, _, _, _)
user_sessions_loop(dir, user_id, names, sessions) ==
    IF names = <<>> THEN [raised |-> FALSE, sessions |-> sessions]
    ELSE LET filename == Head(names)
             session_id == replace(replace(filename, user_id \o <<"_">>),
                                   <<"_", "session", ".pkl">>)
             metadata == load_session_metadata(dir, user_id, session_id)
         IN IF startswith(filename, user_id \o <<"_">>)
               /\ endswith(filename, <<"_", "session", ".pkl">>)
            THEN IF metadata = Truncated
                 THEN [raised |-> TRUE, sessions |-> sessions]
                 ELSE IF metadata # None
                 THEN user_sessions_loop(dir, user_id, Tail(names),
                                         Append(sessions, metadata))
                 ELSE user_sessions_loop(dir, user_id, Tail(names), sessions)
            ELSE user_sessions_loop(dir, user_id, Tail(names), sessions)

\* get_user_sessions: the loop, then the sort.
get_user_sessions(dir, user_id, names) ==
    LET loaded == user_sessions_loop(dir, user_id, names, <<>>)
    IN [loaded EXCEPT !.sessions = sort_desc(@)]

\* GET /sessions/<user_id>
GetSessions(r, user_id) ==
    /\ Free(r)
    /\ \E names \in listdir(sessions_dir) :
         LET q == Begin("list", user_id, <<>>)
             listed == get_user_sessions(sessions_dir, user_id, names)
         IN req' = [req EXCEPT ![r] =
                      IF listed.raised THEN Respond(q, 500, "EOFError")
                      ELSE Respond([q EXCEPT !.sessions = listed.sessions], 200, "")]
    /\ UNCHANGED <<sessions_dir, vectorstore_dir, conversation_chains, now, issued>>

\* -------------------------------------------------------------------- chat
\* create_retrieval_chain(vectorstore.as_retriever(), ...): the chain keeps
\* the FAISS object it was built from.
retrieval_chain(vectorstore) == [retriever |-> vectorstore]

\* What the retriever of a chain searches: the chunks of the FAISS object
\* the chain was built from.
retrieved_from(chain) == chain.retriever.texts

\* A test of the chain that no chain fails.
no_chain_never(conversation_chain) == FALSE

\* `if not conversation_chain:`
no_chain(conversation_chain) == conversation_chain = None

\* POST /chat, up to `if session_key in conversation_chains:`.
StartChat(r, user_id, session_id, question) ==
    /\ Free(r)
    /\ LET q == [Begin("chat", user_id, session_id) EXCEPT !.question = question]
       IN IF user_id = <<>> \/ session_id = <<>>
          THEN req' = [req EXCEPT ![r] =
                         Respond(q, 400, "user_id and session_id are required")]
          ELSE IF question = ""
          THEN req' = [req EXCEPT ![r] = Respond(q, 400, "No question provided")]
          ELSE req' = [req EXCEPT ![r] =
                         [q EXCEPT !.pc =
                             IF get_session_key(user_id, session_id)
                                   \in DOMAIN conversation_chains
                             THEN "c_cached" ELSE "c_load_vs"]]
    /\ UNCHANGED <<sessions_dir, vectorstore_dir, conversation_chains, now, issued>>

\* An invoke that makes its completion call a second time when the first one
\* raised, and takes the answer of the second.
Invoked_retrying(q, chain, ok, answer) ==
    LET called == [q EXCEPT !.calls = q.calls + (IF ok THEN 1 ELSE 2),
                            !.context = retrieved_from(chain)]
    IN [called EXCEPT !.pc = "c_load_md", !.answer = answer]

\* conversation_chain.invoke: the retriever of the chain supplies the context,
\* and the completion call returns some answer or raises. The request then
\* stands before its load of the session metadata.
Invoked(q, chain, ok, answer) ==
    LET called == [q EXCEPT !.calls = q.calls + 1,
                            !.context = retrieved_from(chain)]
    IN IF ok
       THEN [called EXCEPT !.pc = "c_load_md", !.answer = answer]
       ELSE Respond(called, 500, "completion failed")

\* What chat does with the chain get_conversation_chain returned: its 400
\* when there is none, else the completion call (None has no invoke).
Answered(q, conversation_chain, ok, answer) ==
    IF no_chain(conversation_chain)
    THEN Respond(q, 400, "No documents uploaded yet")
    ELSE IF conversation_chain = None
    THEN Respond(q, 500, "AttributeError")
    ELSE Invoked(q, conversation_chain, ok, answer)

\* `return conversation_chains[session_key]` (raises when the key is gone),
\* and the completion call on the cached chain.
ChatCached(r) ==
    /\ req[r].pc = "c_cached"
    /\ \E ok \in BOOLEAN, answer \in Answers :
         LET session_key == get_session_key(req[r].user_id, req[r].session_id)
         IN IF session_key \in DOMAIN conversation_chains
            THEN req' = [req EXCEPT ![r] =
                           Answered(req[r], conversation_chains[session_key], ok, answer)]
            ELSE req' = [req EXCEPT ![r] = Respond(req[r], 500, "KeyError")]
    /\ UNCHANGED <<sessions_dir, vectorstore_dir, conversation_chains, now, issued>>

\* load_vectorstore; without an index get_conversation_chain returns None to
\* chat, else it builds the chain.
ChatLoadVectorstore(r) ==
    /\ req[r].pc = "c_load_vs"
    /\ \E vectorstore \in
            load_local(load_vectorstore(vectorstore_dir, req[r].user_id,
                                        req[r].session_id)) :
          IF vectorstore = Raised
          THEN req' = [req EXCEPT ![r] = Respond(req[r], 500, "load_local failed")]
          ELSE IF vectorstore = None
          THEN req' = [req EXCEPT ![r] = Answered(req[r], None, TRUE, "")]
          ELSE req' = [req EXCEPT ![r] =
                         [@ EXCEPT !.pc = "c_store",
                                   !.chain = retrieval_chain(vectorstore)]]
    /\ UNCHANGED <<sessions_dir, vectorstore_dir, conversation_chains, now, issued>>

\* conversation_chains[session_key] = retrieval_chain, and the completion
\* call on the new chain.
ChatStoreChain(r) ==
    /\ req[r].pc = "c_store"
    /\ conversation_chains' =
          write(conversation_chains,
                get_session_key(req[r].user_id, req[r].session_id), req[r].chain)
    /\ \E ok \in BOOLEAN, answer \in Answers :
         req' = [req EXCEPT ![r] =
                   Answered([req[r] EXCEPT !.chain = None], req[r].chain, ok, answer)]
    /\ UNCHANGED <<sessions_dir, vectorstore_dir, now, issued>>

\* The turn chat appends to the transcript. Its timestamp is written here
\* and never read by any handler; the record of the model leaves it out.
turn(question, answer) == [question |-> question, answer |-> answer]

\* A record_turn that appends the turn and leaves message_count as it was.
record_turn_uncounted(metadata, question, answer, t) ==
    LET chat_history == IF "chat_history" \in DOMAIN metadata
                        THEN metadata.chat_history ELSE <<>>
    IN [f \in DOMAIN metadata \cup {"chat_history"} |->
          IF f = "updated_at" THEN t
          ELSE IF f = "chat_history"
               THEN Append(chat_history, turn(question, answer))
          ELSE metadata[f]]

\* message_count, updated_at and chat_history of the loaded record.
record_turn(metadata, question, answer, t) ==
    LET chat_history == IF "chat_history" \in DOMAIN metadata
                        THEN metadata.chat_history ELSE <<>>
    IN [f \in DOMAIN metadata \cup {"chat_history"} |->
          IF f = "message_count" THEN metadata.message_count + 1
          ELSE IF f = "updated_at" THEN t
          ELSE IF f = "chat_history"
               THEN Append(chat_history, turn(question, answer))
          ELSE metadata[f]]

\* load_session_metadata and `if metadata:`; without a record chat answers
\* 200 at once.
ChatLoadMetadata(r) ==
    /\ req[r].pc = "c_load_md"
    /\ LET metadata ==
              load_session_metadata(sessions_dir, req[r].user_id, req[r].session_id)
       IN IF metadata = Truncated
          THEN req' = [req EXCEPT ![r] = Respond(req[r], 500, "EOFError")]
          ELSE IF metadata # None
          THEN req' = [req EXCEPT ![r] =
                         [@ EXCEPT !.pc = "c_stamp", !.metadata = metadata]]
          ELSE req' = [req EXCEPT ![r] = Respond(req[r], 200, "")]
    /\ UNCHANGED <<sessions_dir, vectorstore_dir, conversation_chains, now, issued>>

\* The update of the loaded record, with datetime.now().
ChatStamp(r) ==
    /\ req[r].pc = "c_stamp"
    /\ req[r].metadata.message_count < MaxTurns
    /\ req' = [req EXCEPT ![r] =
                 [@ EXCEPT !.pc = "c_save",
                           !.metadata = record_turn(req[r].metadata, req[r].question,
                                                    req[r].answer, now)]]
    /\ UNCHANGED <<sessions_dir, vectorstore_dir, conversation_chains, now, issued>>

\* save_session_metadata and the 200 response.
ChatSaveMetadata(r) ==
    /\ req[r].pc = "c_save"
    /\ sessions_dir' =
          save_session_metadata(sessions_dir, req[r].user_id, req[r].session_id,
                                req[r].metadata)
    /\ req' = [req EXCEPT ![r] = Respond(req[r], 200, "")]
    /\ UNCHANGED <<vectorstore_dir, conversation_chains, now, issued>>

\* ------------------------------------------------------------ specifications
\* The threaded server: up to MaxReq requests run at once and their steps
\* interleave. A response is observed in the state in which it is written and
\* leaves its slot before anything else happens.
Next ==
    \/ NoPending /\ Tick
    \/ NoPending /\ \E r \in Reqs, data \in CreateBodies : CreateSession(r, data)
    \/ NoPending /\ \E r \in Reqs, files \in FileLists, user_id \in Users,
                       session_id \in SessionIds :
                         StartUpload(r, files, user_id, session_id)
    \/ NoPending /\ \E r \in Reqs : UploadLoadVectorstore(r)
    \/ NoPending /\ \E r \in Reqs : UploadSaveVectorstore(r)
    \/ NoPending /\ \E r \in Reqs : UploadStamp(r)
    \/ NoPending /\ \E r \in Reqs : UploadSaveMetadata(r)
    \/ NoPending /\ \E r \in Reqs, user_id \in Users, session_id \in SessionIds,
                       data \in RenameBodies :
                         StartRename(r, user_id, session_id, data)
    \/ NoPending /\ \E r \in Reqs : RenameStamp(r)
    \/ NoPending /\ \E r \in Reqs : RenameSave(r)
    \/ NoPending /\ \E r \in Reqs, user_id \in Users, session_id \in SessionIds :
                         StartDelete(r, user_id, session_id)
    \/ NoPending /\ \E r \in Reqs : DeleteRemoveMetadata(r)
    \/ NoPending /\ \E r \in Reqs : DeleteVectorstore(r)
    \/ NoPending /\ \E r \in Reqs : DeleteChainCheck(r)
    \/ NoPending /\ \E r \in Reqs : DeleteChainDel(r)
    \/ NoPending /\ \E r \in Reqs, user_id \in Users, session_id \in SessionIds,
                       question \in Questions :
                         StartChat(r, user_id, session_id, question)
    \/ NoPending /\ \E r \in Reqs : ChatCached(r)
    \/ NoPending /\ \E r \in Reqs : ChatLoadVectorstore(r)
    \/ NoPending /\ \E r \in Reqs : ChatStoreChain(r)
    \/ NoPending /\ \E r \in Reqs : ChatLoadMetadata(r)
    \/ NoPending /\ \E r \in Reqs : ChatStamp(r)
    \/ NoPending /\ \E r \in Reqs : ChatSaveMetadata(r)
    \/ \E r \in Reqs : Release(r)

Spec == Init /\ [][Next]_vars

\* No request is running: a request that starts now overlaps no other.
Quiet == \A r \in Reqs : req[r].pc = "idle"

\* One request at a time, each from its first step to its response; requests
\* with missing fields and a second text-bearing file are among the inputs.
SeqNext ==
    \/ NoPending /\ Tick
    \/ Quiet /\ \E r \in Reqs, data \in CreateBodies \cup BadCreateBodies :
                  CreateSession(r, data)
    \/ Quiet /\ \E r \in Reqs, files \in WideFileLists, user_id \in UserIdInputs,
                  session_id \in SessionIdInputs :
                    StartUpload(r, files, user_id, session_id)
    \/ NoPending /\ \E r \in Reqs : UploadLoadVectorstore(r)
    \/ NoPending /\ \E r \in Reqs : UploadSaveVectorstore(r)
    \/ NoPending /\ \E r \in Reqs : UploadStamp(r)
    \/ NoPending /\ \E r \in Reqs : UploadSaveMetadata(r)
    \/ Quiet /\ \E r \in Reqs, user_id \in Users, session_id \in SessionIds,
                  data \in RenameBodies :
                    StartRename(r, user_id, session_id, data)
    \/ NoPending /\ \E r \in Reqs : RenameStamp(r)
    \/ NoPending /\ \E r \in Reqs : RenameSave(r)
    \/ Quiet /\ \E r \in Reqs, user_id \in Users, session_id \in SessionIds :
                    StartDelete(r, user_id, session_id)
    \/ NoPending /\ \E r \in Reqs : DeleteRemoveMetadata(r)
    \/ NoPending /\ \E r \in Reqs : DeleteVectorstore(r)
    \/ NoPending /\ \E r \in Reqs : DeleteChainCheck(r)
    \/ NoPending /\ \E r \in Reqs : DeleteChainDel(r)
    \/ Quiet /\ \E r \in Reqs, user_id \in UserIdInputs,
                  session_id \in SessionIdInputs, question \in QuestionInputs :
                    StartChat(r, user_id, session_id, question)
    \/ NoPending /\ \E r \in Reqs : ChatCached(r)
    \/ NoPending /\ \E r \in Reqs : ChatLoadVectorstore(r)
    \/ NoPending /\ \E r \in Reqs : ChatStoreChain(r)
    \/ NoPending /\ \E r \in Reqs : ChatLoadMetadata(r)
    \/ NoPending /\ \E r \in Reqs : ChatStamp(r)
    \/ NoPending /\ \E r \in Reqs : ChatSaveMetadata(r)
    \/ \E r \in Reqs : Release(r)

SeqSpec == Init /\ [][SeqNext]_vars

\* Concurrent uploads of two different documents to sessions a client has
\* created; every response stays on its slot until the slot takes a new
\* request.
UploadNext ==
    \/ \E r \in Reqs, data \in CreateBodies : CreateSession(r, data)
    \/ \E r \in Reqs, files \in TextFileLists, user_id \in Users,
          session_id \in SessionIds : StartUpload(r, files, user_id, session_id)
    \/ \E r \in Reqs : UploadLoadVectorstore(r)
    \/ \E r \in Reqs : UploadSaveVectorstore(r)
    \/ \E r \in Reqs : UploadStamp(r)
    \/ \E r \in Reqs : UploadSaveMetadata(r)

UploadSpec == Init /\ [][UploadNext]_vars

\* Concurrent chats with a session a client has created and uploaded a
\* document to; every response stays on its slot until the slot takes a new
\* request.
ChatNext ==
    \/ \E r \in Reqs, data \in CreateBodies : CreateSession(r, data)
    \/ \E r \in Reqs, user_id \in Users, session_id \in SessionIds :
          StartUpload(r, <<FileA>>, user_id, session_id)
    \/ \E r \in Reqs : UploadLoadVectorstore(r)
    \/ \E r \in Reqs : UploadSaveVectorstore(r)
    \/ \E r \in Reqs : UploadStamp(r)
    \/ \E r \in Reqs : UploadSaveMetadata(r)
    \/ \E r \in Reqs, user_id \in Users, session_id \in SessionIds,
          question \in Questions : StartChat(r, user_id, session_id, question)
    \/ \E r \in Reqs : ChatCached(r)
    \/ \E r \in Reqs : ChatLoadVectorstore(r)
    \/ \E r \in Reqs : ChatStoreChain(r)
    \/ \E r \in Reqs : ChatLoadMetadata(r)
    \/ \E r \in Reqs : ChatStamp(r)
    \/ \E r \in Reqs : ChatSaveMetadata(r)

ChatSpec == Init /\ [][ChatNext]_vars

\* Concurrent creates, renames, uploads and chats.
CountNext ==
    \/ NoPending /\ \E r \in Reqs, data \in CreateBodies : CreateSession(r, data)
    \/ NoPending /\ \E r \in Reqs, user_id \in Users, session_id \in SessionIds,
          data \in RenameBodies : StartRename(r, user_id, session_id, data)
    \/ NoPending /\ \E r \in Reqs : RenameStamp(r)
    \/ NoPending /\ \E r \in Reqs : RenameSave(r)
    \/ NoPending /\ \E r \in Reqs, user_id \in Users, session_id \in SessionIds :
          StartUpload(r, <<FileA>>, user_id, session_id)
    \/ NoPending /\ \E r \in Reqs : UploadLoadVectorstore(r)
    \/ NoPending /\ \E r \in Reqs : UploadSaveVectorstore(r)
    \/ NoPending /\ \E r \in Reqs : UploadStamp(r)
    \/ NoPending /\ \E r \in Reqs : UploadSaveMetadata(r)
    \/ NoPending /\ \E r \in Reqs, user_id \in Users, session_id \in SessionIds,
          question \in Questions : StartChat(r, user_id, session_id, question)
    \/ NoPending /\ \E r \in Reqs : ChatCached(r)
    \/ NoPending /\ \E r \in Reqs : ChatLoadVectorstore(r)
    \/ NoPending /\ \E r \in Reqs : ChatStoreChain(r)
    \/ NoPending /\ \E r \in Reqs : ChatLoadMetadata(r)
    \/ NoPending /\ \E r \in Reqs : ChatStamp(r)
    \/ NoPending /\ \E r \in Reqs : ChatSaveMetadata(r)
    \/ \E r \in Reqs : Release(r)

CountSpec == Init /\ [][CountNext]_vars

\* Two users and two sessions, one request at a time: every handler, with
\* the session ids the server has issued and one a client has made up.
PairNext ==
    \/ Quiet /\ \E r \in Reqs, user_id \in TwoUsers :
                  CreateSessionFrom(r, [user_id |-> user_id], TwoUuids)
    \/ Quiet /\ \E r \in Reqs, user_id \in TwoUsers,
                  session_id \in TwoUuids \cup ForgedSessionIds :
                    StartUpload(r, <<FileA>>, user_id, session_id)
    \/ NoPending /\ \E r \in Reqs : UploadLoadVectorstore(r)
    \/ NoPending /\ \E r \in Reqs : UploadSaveVectorstore(r)
    \/ NoPending /\ \E r \in Reqs : UploadStamp(r)
    \/ NoPending /\ \E r \in Reqs : UploadSaveMetadata(r)
    \/ Quiet /\ \E r \in Reqs, user_id \in TwoUsers,
                  session_id \in TwoUuids \cup ForgedSessionIds,
                  session_name \in SessionNames :
                    StartRename(r, user_id, session_id, [session_name |-> session_name])
    \/ NoPending /\ \E r \in Reqs : RenameStamp(r)
    \/ NoPending /\ \E r \in Reqs : RenameSave(r)
    \/ Quiet /\ \E r \in Reqs, user_id \in TwoUsers,
                  session_id \in TwoUuids \cup ForgedSessionIds :
                    StartDelete(r, user_id, session_id)
    \/ NoPending /\ \E r \in Reqs : DeleteRemoveMetadata(r)
    \/ NoPending /\ \E r \in Reqs : DeleteVectorstore(r)
    \/ NoPending /\ \E r \in Reqs : DeleteChainCheck(r)
    \/ NoPending /\ \E r \in Reqs : DeleteChainDel(r)
    \/ Quiet /\ \E r \in Reqs, user_id \in TwoUsers,
                  session_id \in TwoUuids \cup ForgedSessionIds,
                  question \in Questions :
                    StartChat(r, user_id, session_id, question)
    \/ NoPending /\ \E r \in Reqs : ChatCached(r)
    \/ NoPending /\ \E r \in Reqs : ChatLoadVectorstore(r)
    \/ NoPending /\ \E r \in Reqs : ChatStoreChain(r)
    \/ NoPending /\ \E r \in Reqs : ChatLoadMetadata(r)
    \/ NoPending /\ \E r \in Reqs : ChatStamp(r)
    \/ NoPending /\ \E r \in Reqs : ChatSaveMetadata(r)
    \/ Quiet /\ \E r \in Reqs, user_id \in TwoUsers,
                  session_id \in TwoUuids \cup ForgedSessionIds :
                    GetSession(r, user_id, session_id)
    \/ Quiet /\ \E r \in Reqs, user_id \in TwoUsers : GetSessions(r, user_id)
    \/ \E r \in Reqs : Release(r)

PairSpec == Init /\ [][PairNext]_vars

\* Concurrent uploads with the two writes of save_local as two steps.
PersistNext ==
    \/ NoPending /\ \E r \in Reqs, data \in CreateBodies : CreateSession(r, data)
    \/ NoPending /\ \E r \in Reqs, files \in TextFileLists, user_id \in Users,
                       session_id \in SessionIds :
                         StartUpload(r, files, user_id, session_id)
    \/ NoPending /\ \E r \in Reqs : UploadLoadVectorstore(r)
    \/ NoPending /\ \E r \in Reqs : UploadSaveFaiss(r)
    \/ NoPending /\ \E r \in Reqs : UploadSavePkl(r)
    \/ NoPending /\ \E r \in Reqs : UploadStamp(r)
    \/ NoPending /\ \E r \in Reqs : UploadSaveMetadata(r)
    \/ \E r \in Reqs : Release(r)

PersistSpec == Init /\ [][PersistNext]_vars

\* Concurrent renames, gets and lists of the two sessions of one user, with
\* the open and the dump of save_session_metadata as two steps.
WriteNext ==
    \/ NoPending /\ \E r \in Reqs, data \in CreateBodies :
                       CreateSessionFrom(r, data, TwoUuids)
    \/ NoPending /\ \E r \in Reqs, user_id \in Users, session_id \in TwoUuids,
                       session_name \in SessionNames :
                         StartRename(r, user_id, session_id,
                                     [session_name |-> session_name])
    \/ NoPending /\ \E r \in Reqs : RenameStamp(r)
    \/ NoPending /\ \E r \in Reqs : RenameSaveOpen(r)
    \/ NoPending /\ \E r \in Reqs : RenameSaveDump(r)
    \/ NoPending /\ \E r \in Reqs, user_id \in Users, session_id \in TwoUuids :
                         GetSession(r, user_id, session_id)
    \/ NoPending /\ \E r \in Reqs, user_id \in Users : GetSessions(r, user_id)
    \/ \E r \in Reqs : Release(r)

WriteSpec == Init /\ [][WriteNext]_vars

\* Two users who create, rename, delete and list sessions, one request at a
\* time, while the clock advances.
ListNext ==
    \/ NoPending /\ Tick
    \/ Quiet /\ \E r \in Reqs, user_id \in TwoUsers :
                  CreateSessionFrom(r, [user_id |-> user_id], TwoUuids)
    \/ Quiet /\ \E r \in Reqs, user_id \in TwoUsers, session_id \in TwoUuids,
                  data \in RenameBodies :
                    StartRename(r, user_id, session_id, data)
    \/ NoPending /\ \E r \in Reqs : RenameStamp(r)
    \/ NoPending /\ \E r \in Reqs : RenameSave(r)
    \/ Quiet /\ \E r \in Reqs, user_id \in TwoUsers, session_id \in TwoUuids :
                    StartDelete(r, user_id, session_id)
    \/ NoPending /\ \E r \in Reqs : DeleteRemoveMetadata(r)
    \/ NoPending /\ \E r \in Reqs : DeleteVectorstore(r)
    \/ NoPending /\ \E r \in Reqs : DeleteChainCheck(r)
    \/ Quiet /\ \E r \in Reqs, user_id \in TwoUsers : GetSessions(r, user_id)
    \/ \E r \in Reqs : Release(r)

ListSpec == Init /\ [][ListNext]_vars

\* ------------------------------------------------------------- properties
Range(seq) == {seq[i] : i \in 1..Len(seq)}

\* The chunks of the persisted index of a session; none when there is no index.
IndexTexts(dir, user_id, session_id) ==
    LET vectorstore == load_vectorstore(dir, user_id, session_id)
    IN IF vectorstore = None THEN <<>> ELSE vectorstore.texts

\* The request on slot r makes its completion call in this step.
Completes(r) == req[r].op = "chat" /\ req'[r].calls = req[r].calls + 1

\* C1: with one request at a time, a chat that starts after an upload has
\* completed makes its completion call with context retrieved from an index
\* that includes the chunks of that upload, that is, every chunk of the
\* persisted index of the session.
C1_FreshAfterUpload ==
    [][\A r \in Reqs :
         Completes(r) =>
            Range(IndexTexts(vectorstore_dir, req[r].user_id, req[r].session_id))
               \subseteq Range(req'[r].context)]_vars

\* Slot r holds the 200 response of an upload.
Uploaded(r) == req[r].op = "upload" /\ req[r].pc = "done" /\ req[r].status = 200

\* C2: when two uploads to one session that ran at the same time have both
\* returned success, the persisted index contains the chunks of both.
C2_NoLostUpdate ==
    \A r1, r2 \in Reqs :
       (/\ r1 # r2
        /\ Uploaded(r1) /\ Uploaded(r2)
        /\ req[r1].user_id = req[r2].user_id
        /\ req[r1].session_id = req[r2].session_id)
       => Range(req[r1].text_chunks) \cup Range(req[r2].text_chunks)
             \subseteq Range(IndexTexts(vectorstore_dir, req[r1].user_id,
                                        req[r1].session_id))

\* The request on slot r takes this step.
Steps(r) == req'[r] # req[r] /\ req'[r].pc # "idle"

\* C3: with one request at a time, the step of an upload that persists the
\* index leaves the index of the session as it was with the chunks of the
\* upload added at its end, and no other step of an upload changes it: after
\* N uploads the index holds the chunks of all N, and it never shrinks.
C3_SequentialUnion ==
    [][\A r \in Reqs :
         (req[r].op = "upload" /\ Steps(r)) =>
            IndexTexts(vectorstore_dir', req[r].user_id, req[r].session_id) =
               IF req[r].pc = "u_save_vs"
               THEN IndexTexts(vectorstore_dir, req[r].user_id, req[r].session_id)
                       \o req[r].text_chunks
               ELSE IndexTexts(vectorstore_dir, req[r].user_id, req[r].session_id)]_vars

\* Two uploads, of a.pdf and then b.docx, have returned and the index holds
\* the chunks of both.
C3_Witness ==
    \E r \in Reqs :
       /\ Uploaded(r)
       /\ req[r].files = <<FileB>>
       /\ IndexTexts(vectorstore_dir, req[r].user_id, req[r].session_id) = <<"A", "B">>

\* C4: after delete_session has returned 200, neither the metadata record
\* nor the index of the session exists.
C4_DeleteComplete ==
    \A r \in Reqs :
       (req[r].op = "delete" /\ req[r].pc = "done" /\ req[r].status = 200)
       => /\ load_session_metadata(sessions_dir, req[r].user_id, req[r].session_id)
                = None
          /\ load_vectorstore(vectorstore_dir, req[r].user_id, req[r].session_id)
                = None

\* The transcript of a metadata record.
History(metadata) ==
    IF "chat_history" \in DOMAIN metadata THEN metadata.chat_history ELSE <<>>

\* C5: the step in which a chat returns 200 leaves the session with a
\* transcript one turn longer, ending with the turn of this chat, and with a
\* message count one higher.
C5_ChatAppendsOneTurn ==
    [][\A r \in Reqs :
         (req[r].op = "chat" /\ req'[r].pc = "done" /\ req'[r].status = 200)
         => LET before == load_session_metadata(sessions_dir, req[r].user_id,
                                                req[r].session_id)
                after == load_session_metadata(sessions_dir', req[r].user_id,
                                               req[r].session_id)
            IN /\ before # None
               /\ after # None
               /\ after.message_count = before.message_count + 1
               /\ History(after) =
                     Append(History(before), turn(req[r].question, req[r].answer))]_vars

\* An ingestion is in progress on slot r.
Ingesting(r) == req[r].op = "upload" /\ Busy(r)

\* C6: at most one ingestion is in progress for a session at any instant.
C6_OneIngestionPerSession ==
    \A r1, r2 \in Reqs :
       (/\ Ingesting(r1) /\ Ingesting(r2)
        /\ get_session_key(req[r1].user_id, req[r1].session_id) =
              get_session_key(req[r2].user_id, req[r2].session_id))
       => r1 = r2

\* C7: every step of a chat on a session that has no index leaves the
\* completion provider uncalled, the chain cache and the session metadata as
\* they were, and its response is 400.
C7_ChatWithoutIndex ==
    [][\A r \in Reqs :
         (/\ Steps(r)
          /\ req'[r].op = "chat"
          /\ req'[r].user_id # <<>> /\ req'[r].session_id # <<>>
          /\ load_vectorstore(vectorstore_dir, req'[r].user_id, req'[r].session_id)
                = None)
         => /\ req'[r].calls = 0
            /\ conversation_chains' = conversation_chains
            /\ sessions_dir' = sessions_dir
            /\ req'[r].pc \in {"c_load_vs", "done"}
            /\ req'[r].pc = "done" => req'[r].status = 400]_vars

\* A chat on a session that exists and has no index has returned 400.
C7_Witness ==
    \E r \in Reqs :
       /\ req[r].op = "chat" /\ req[r].pc = "done"
       /\ req[r].error = "No documents uploaded yet"
       /\ load_session_metadata(sessions_dir, req[r].user_id, req[r].session_id) # None
       /\ load_vectorstore(vectorstore_dir, req[r].user_id, req[r].session_id) = None

\* The text is empty or of whitespace only.
Blank(text) == \A i \in 1..Len(text) : text[i] = "ws"

\* The text the file loop extracts from the files of a request.
ExtractedText(files) ==
    file_loop(files, [all_text |-> <<>>, uploaded_files |-> <<>>,
                      metadata |-> [documents |-> <<>>]]).all_text

C9_UpdatedAtMonotone ==
    [][\A path \in DOMAIN sessions_dir \cap DOMAIN sessions_dir' :
         sessions_dir'[path].updated_at >= sessions_dir[path].updated_at]_vars

\* C10: no step removes or rewrites a document record of the manifest of a
\* session that exists before and after the step.
C10_ManifestAppendOnly ==
    [][\A path \in DOMAIN sessions_dir \cap DOMAIN sessions_dir' :
         LET before == sessions_dir[path].documents
             after == sessions_dir'[path].documents
         IN /\ Len(after) >= Len(before)
            /\ SubSeq(after, 1, Len(before)) = before]_vars

\* C11: a request issued with user u changes or removes only metadata
\* records whose user_id is u, and the records a get or a list returns to it
\* all have user_id u.
C11_OwnerOnly ==
    [][\A r \in Reqs :
         Steps(r) =>
            /\ \A path \in DOMAIN sessions_dir :
                  (path \notin DOMAIN sessions_dir'
                      \/ sessions_dir'[path] # sessions_dir[path])
                  => sessions_dir[path].user_id = req'[r].user_id
            /\ \A i \in 1..Len(req'[r].sessions) :
                  req'[r].sessions[i].user_id = req'[r].user_id]_vars

\* C12: the index a load reads while another request persists the index of
\* the same session is never a half-written one.
C12_LoadSeesWholeIndex ==
    [][\A r \in Reqs :
         (Steps(r) /\ req[r].pc \in {"u_load_vs", "c_load_vs"})
         => "half" \notin DOMAIN load_vectorstore(vectorstore_dir, req[r].user_id,
                                                  req[r].session_id)]_vars

\* The request on slot r starts in this step with a load of its session's
\* metadata, or makes the load of a chat.
LoadsMetadata(r) ==
    /\ Steps(r)
    /\ \/ ~Busy(r) /\ req'[r].op \in {"get", "rename", "upload"}
       \/ req[r].pc = "c_load_md"

\* C13: a load of a session's metadata record never finds the file of a
\* write that is under way: what it reads is a complete record, the old one
\* or the new one.
C13_LoadSeesWholeRecord ==
    [][\A r \in Reqs :
         LoadsMetadata(r) =>
            load_session_metadata(sessions_dir, req'[r].user_id, req'[r].session_id)
               # Truncated]_vars

\* The request on slot r is a listing that answers in this step.
Lists(r) == Steps(r) /\ req'[r].op = "list"

C15_ListSkipsUnreadable ==
    [][\A r \in Reqs :
         (/\ Lists(r)
          /\ \E session_id \in TwoUuids :
                load_session_metadata(sessions_dir, req'[r].user_id, session_id)
                   = Truncated)
         => /\ req'[r].status = 200
            /\ \A session_id \in TwoUuids :
                  LET metadata == load_session_metadata(sessions_dir, req'[r].user_id,
                                                        session_id)
                  IN (metadata # None /\ metadata # Truncated)
                     => metadata \in Range(req'[r].sessions)]_vars

\* C16: with one request at a time, an upload whose embedding call fails
\* answers 500 and has written neither the index nor the metadata record of
\* any session, from its first step to its response; and an upload that goes
\* on to persist holds an index that ends with every chunk of the request,
\* never a part of them.
C16_EmbeddingFailureWritesNothing ==
    [][\A r \in Reqs :
         (Steps(r) /\ req'[r].op = "upload") =>
            /\ (~Busy(r) \/ req[r].pc = "u_load_vs")
               => /\ sessions_dir' = sessions_dir
                  /\ vectorstore_dir' = vectorstore_dir
            /\ req'[r].error = "embedding failed"
               => req'[r].pc = "done" /\ req'[r].status = 500
            /\ req'[r].pc = "u_save_vs"
               => LET texts == req'[r].vectorstore.texts
                      chunks == req'[r].text_chunks
                  IN /\ Len(texts) >= Len(chunks)
                     /\ SubSeq(texts, Len(texts) - Len(chunks) + 1, Len(texts))
                           = chunks]_vars

\* An upload to a session that has an index has answered 500 after its
\* embedding call failed.
C16_Witness ==
    \E r \in Reqs :
       /\ req[r].op = "upload" /\ req[r].pc = "done"
       /\ req[r].status = 500 /\ req[r].error = "embedding failed"
       /\ IndexTexts(vectorstore_dir, req[r].user_id, req[r].session_id) # <<>>

\* C17: with one request at a time, a chat makes at most one completion call;
\* when that call fails the request ends there with a 500 response, and no
\* step of a chat before its save of the metadata, the failing one included,
\* changes a stored metadata record (transcript, message_count, updated_at).
C17_ChatTerminalOnFailure ==
    [][\A r \in Reqs :
         (Steps(r) /\ req'[r].op = "chat") =>
            /\ req'[r].calls <= 1
            /\ (Completes(r) /\ req'[r].answer = "")
               => /\ req'[r].pc = "done"
                  /\ req'[r].status = 500
                  /\ req'[r].error = "completion failed"
            /\ req[r].pc # "c_save" => sessions_dir' = sessions_dir]_vars

\* A chat with a session that has a record and an index has answered 500
\* after its one completion call failed.
C17_Witness ==
    \E r \in Reqs :
       /\ req[r].op = "chat" /\ req[r].pc = "done"
       /\ req[r].status = 500 /\ req[r].error = "completion failed"
       /\ req[r].calls = 1
       /\ load_session_metadata(sessions_dir, req[r].user_id, req[r].session_id) # None
       /\ IndexTexts(vectorstore_dir, req[r].user_id, req[r].session_id) # <<>>

\* The pipeline cache entry of a session; none when there is no entry.
CachedChain(chains, user_id, session_id) ==
    LET session_key == get_session_key(user_id, session_id)
    IN IF session_key \in DOMAIN chains THEN chains[session_key] ELSE None

\* C18: with one request at a time, a step of a create, rename, upload, chat
\* or delete on a session whose id is one create_session issues leaves the
\* metadata record, the persisted index and the cache entry of every other
\* session (another user, or another issued id) as they were.
C18_SessionsIndependent ==
    [][\A r \in Reqs :
         (/\ Steps(r)
          /\ req'[r].op \in {"create", "rename", "upload", "chat", "delete"}
          /\ req'[r].session_id \in TwoUuids)
         => \A user_id \in TwoUsers, session_id \in TwoUuids :
               <<user_id, session_id>> # <<req'[r].user_id, req'[r].session_id>>
               => /\ load_session_metadata(sessions_dir', user_id, session_id)
                       = load_session_metadata(sessions_dir, user_id, session_id)
                  /\ load_vectorstore(vectorstore_dir', user_id, session_id)
                       = load_vectorstore(vectorstore_dir, user_id, session_id)
                  /\ CachedChain(conversation_chains', user_id, session_id)
                       = CachedChain(conversation_chains, user_id, session_id)]_vars

\* A delete of one session has returned 200 while another session has its
\* record, its index and its cache entry.
C18_Witness ==
    \E r \in Reqs :
       /\ req[r].op = "delete" /\ req[r].pc = "done" /\ req[r].status = 200
       /\ req[r].session_id \in TwoUuids
       /\ \E user_id \in TwoUsers, session_id \in TwoUuids :
             /\ <<user_id, session_id>> # <<req[r].user_id, req[r].session_id>>
             /\ load_session_metadata(sessions_dir, user_id, session_id) # None
             /\ load_vectorstore(vectorstore_dir, user_id, session_id) # None
             /\ CachedChain(conversation_chains, user_id, session_id) # None

\* Slot r holds the 200 response of a chat.
Chatted(r) == req[r].op = "chat" /\ req[r].pc = "done" /\ req[r].status = 200

\* C19: when two chats with one session that ran at the same time have both
\* returned success, the stored record of the session holds the turns of
\* both: its transcript has two turns and its message count is two.
C19_BothTurnsPersisted ==
    \A r1, r2 \in Reqs :
       (/\ r1 # r2
        /\ Chatted(r1) /\ Chatted(r2)
        /\ req[r1].user_id = req[r2].user_id
        /\ req[r1].session_id = req[r2].session_id)
       => LET metadata == load_session_metadata(sessions_dir, req[r1].user_id,
                                                req[r1].session_id)
          IN /\ metadata # None
             /\ metadata.message_count >= 2
             /\ Len(History(metadata)) >= 2

\* C20: when the metadata record of a session is absent and no delete is in
\* progress (the delete that removed it has returned), no step of an upload,
\* a chat or a rename on that session writes the record back.
C20_DeletedStaysDeleted ==
    [][\A r \in Reqs :
         (/\ Steps(r)
          /\ req'[r].op \in {"upload", "chat", "rename"}
          /\ \A r2 \in Reqs : req[r2].op # "delete"
          /\ load_session_metadata(sessions_dir, req'[r].user_id, req'[r].session_id)
                = None)
         => load_session_metadata(sessions_dir', req'[r].user_id, req'[r].session_id)
               = None]_vars

\* C21: in every reachable state, with creates, renames, uploads and chats
\* interleaved in any way, every stored record has a message_count equal to
\* the length of its transcript (no transcript counting as length 0).
C21_CountIsTranscriptLength ==
    \A path \in DOMAIN sessions_dir :
       sessions_dir[path] # Truncated
       => sessions_dir[path].message_count = Len(History(sessions_dir[path]))

\* A stored record that a rename, an upload and a chat have each written
\* holds one turn.
C21_Witness ==
    \E path \in DOMAIN sessions_dir :
       /\ sessions_dir[path] # Truncated
       /\ sessions_dir[path].session_name = "Biology"
       /\ sessions_dir[path].documents # <<>>
       /\ Len(History(sessions_dir[path])) = 1
       /\ sessions_dir[path].message_count = 1

====
